---------------------------- MODULE Spec2Model ----------------------------
(***************************************************************************)
(* Container layout planning and frame compositing of the video display.   *)
(*                                                                         *)
(*   ContainerTransform  (src/src/components/container_transform.py)       *)
(*       generate_container_settings : the grid planner (12 x 8 cells)     *)
(*       apply_transform             : the compositor with a fallback      *)
(*   VideoPlayer         (src/src/video_player.py)                         *)
(*       generate_container_settings : the legacy planner (20 x 20 cells)  *)
(*       apply_container_transform   : the legacy compositor               *)
(*       run                         : the playback loop                   *)
(*                                                                         *)
(* Numbers.  Python floats are modelled as exact rationals <<n, d>> with   *)
(* d > 0; int() is truncation toward zero and round() is Python's          *)
(* round-half-to-even.  Floating-point rounding is modelled where a size   *)
(* is scaled by a quotient, int(n * (a / b)) in the aspect-fill of the two *)
(* compositors (FloatTrunc); elsewhere the arithmetic is exact.            *)
(*                                                                         *)
(* Randomness.  Every call of the random module is a nondeterministic      *)
(* choice.  randint and choice over a literal list range over all their    *)
(* values; a float draw u is sampled at k / RandRes; the choice among the  *)
(* free grid positions is sampled at the indices floor(k * n / PosRes).    *)
(* The variable rng names, for one run, which samples are explored.        *)
(***************************************************************************)
EXTENDS Integers, Sequences, FiniteSets, TLC

VARIABLES
    mode,            \* what this run exercises: "grid", "legacy", "transform", "legacy_transform", "run"
    rng,             \* the samples of the random draws explored in this run
    display_width,   \* self.display_width
    display_height,  \* self.display_height
    min_objects,     \* self.min_objects
    max_objects,     \* self.max_objects
    pc,              \* position in the running method
    count,           \* generate_container_settings: count
    containers,      \* generate_container_settings: containers
    spans,           \* history: the grid span marked for each container
    types,           \* history: the container_type drawn for each container of the grid planner
    grid,            \* ContainerTransform.grid, the set of occupied <<row, col>>
    attempts,        \* grid planner: attempts (remaining budget)
    placed,          \* grid planner: placed
    iterations,      \* history: loop iterations of the current planning call
    occupied_grid,   \* legacy planner: the set of occupied <<gy, gx>>
    attempt_count,   \* legacy planner: attempt_count
    cand,            \* legacy planner: the container being positioned
    tries,           \* legacy planner: passes of "for _ in range(100)" so far (0 outside the loop)
    frame,           \* compositor: the frame argument
    container,       \* compositor: the container argument
    result,          \* compositor: what the call returned or that it raised
    cap,             \* VideoPlayer.cap: "none", "unopened" or "open"
    objects,         \* VideoPlayer.objects
    i,               \* run: index of the container being drawn
    outcomes,        \* history: what happened to each container of the current pass
    scenes,          \* history: how many videos have been opened
    calls            \* history: how many planning calls preceded the current one

vars == <<mode, rng, display_width, display_height, min_objects, max_objects,
          pc, count, containers, spans, types, grid, attempts, placed,
          iterations, occupied_grid, attempt_count, cand, tries, frame, container, result,
          cap, objects, i, outcomes, scenes, calls>>

\* the variables of each object
config == <<mode, rng, display_width, display_height, min_objects, max_objects>>
gridVars == <<grid, attempts, placed>>
legacyVars == <<occupied_grid, attempt_count, cand, tries>>
planVars == <<count, containers, spans, types, iterations>>
compVars == <<frame, container, result>>
runVars == <<cap, objects, i, outcomes, scenes>>

---------------------------------------------------------------------------
(* Bounds of the model.                                                    *)

\* float draws are sampled at k / RandRes
RandRes == 3
\* the choice among n free positions is sampled at floor(k * n / PosRes)
PosRes == 2
\* min_objects and max_objects range over 1 .. MaxObjects
MaxObjects == 4

---------------------------------------------------------------------------
(* Arithmetic.                                                             *)

Min(a, b) == IF a <= b THEN a ELSE b
Max(a, b) == IF a >= b THEN a ELSE b

\* int(n / d): truncation toward zero, d > 0
Trunc(n, d) == IF n >= 0 THEN n \div d ELSE -((-n) \div d)

\* round(n / d): round half to even, n >= 0, d > 0
Round(n, d) ==
    LET q == n \div d
        r == n % d
    IN  IF 2 * r < d THEN q
        ELSE IF 2 * r > d THEN q + 1
        ELSE IF q % 2 = 0 THEN q ELSE q + 1

\* the exponent of a / b as a binary64 number: the largest e with
\* 2^e <= a / b, for a, b > 0
RECURSIVE FloorLog2(_, _)
FloorLog2(a, b) ==
    IF a >= b THEN (IF 2 * b <= a THEN 1 + FloorLog2(a, 2 * b) ELSE 0)
    ELSE FloorLog2(2 * a, b) - 1

\* 2^k mod b
RECURSIVE Pow2Mod(_, _)
Pow2Mod(k, b) == IF k = 0 THEN 1 % b ELSE (2 * Pow2Mod(k - 1, b)) % b

RECURSIVE IsPow2(_)
IsPow2(t) == t = 1 \/ (t > 1 /\ t % 2 = 0 /\ IsPow2(t \div 2))

\* int(n * (a / b)) in binary64 arithmetic, for n, a >= 0 and b > 0 below
\* 2^11: the quotient a / b is rounded to 53 significant bits before the
\* multiplication, and the product is rounded again. When n * a / b is
\* not an integer the rounding errors are far smaller than its distance to
\* the next integer and the result is the exact floor. When n * a / b is an
\* integer T and the quotient was rounded down by more than half the gap
\* between T and the binary64 number below it, the product rounds to that
\* number and the result is T - 1 (int(49 * (1 / 49)) = 0,
\* int(480 * (164 / 640)) = 122).
\*   r / (b * 2^(52 - e)) is the amount the quotient lost, e its exponent;
\*   the gap below T is 2^(p - 52), or 2^(p - 53) when T is a power of two,
\*   p the exponent of T; ties round to T, whose significand is even.
FloatTrunc(n, a, b) ==
    LET T == (n * a) \div b
    IN  IF n = 0 \/ a = 0 \/ (n * a) % b # 0 THEN T
        ELSE
        LET e == FloorLog2(a, b)
            r == (a * Pow2Mod(52 - e, b)) % b
            d == FloorLog2(T, 1) - e
            half_gap == IF IsPow2(T) THEN b * 2^d ELSE b * 2^(d + 1)
        IN  IF r = 0 \/ 2 * r > b THEN T
            ELSE IF 4 * n * r > half_gap THEN T - 1 ELSE T

RECURSIVE GCD(_, _)
GCD(a, b) == IF b = 0 THEN a ELSE GCD(b, a % b)
Abs(a) == IF a >= 0 THEN a ELSE -a

\* rationals <<n, d>>, d > 0, kept in lowest terms
Norm(n, d) ==
    LET g == GCD(Abs(n), d)
    IN  IF g = 0 THEN <<n, d>> ELSE <<n \div g, d \div g>>
RInt(n) == <<n, 1>>
RAdd(p, q) == Norm(p[1] * q[2] + q[1] * p[2], p[2] * q[2])
RSub(p, q) == Norm(p[1] * q[2] - q[1] * p[2], p[2] * q[2])
RMul(p, q) == Norm(p[1] * q[1], p[2] * q[2])
RDiv(p, q) == Norm(p[1] * q[2], p[2] * q[1])
RLess(p, q) == p[1] * q[2] < q[1] * p[2]
RLeq(p, q) == p[1] * q[2] <= q[1] * p[2]
RTrunc(p) == Trunc(p[1], p[2])
RRound(p) == Round(p[1], p[2])

\* random.uniform(a, b) at the sample u = k / RandRes: a + (b - a) * u
Uniform(a, b, k) == RAdd(a, RMul(RSub(b, a), Norm(k, RandRes)))

\* random.randint(a, b)
RandInt(a, b) ==
    CASE rng.ints = "all" -> a .. b
      [] rng.ints = "ends" -> {a, b}
      [] OTHER -> {b}

\* random.choice over a literal list
Choice(list) ==
    IF rng.pick = "all" THEN {list[k] : k \in 1 .. Len(list)} ELSE {list[1]}

---------------------------------------------------------------------------
(* ContainerTransform.__init__                                             *)

grid_cols == 12
grid_rows == 8

\* int(min(display_width, display_height) * 0.02)
spacing == Trunc(Min(display_width, display_height) * 2, 100)

cell_width == <<display_width - (grid_cols + 1) * spacing, grid_cols>>
\* variant: the spacing between the rows is not taken off the height
cell_height_unspaced == <<display_height, grid_rows>>
cell_height == <<display_height - (grid_rows + 1) * spacing, grid_rows>>

\* tenths: cutout_min_size = 0.2, cutout_max_size = 0.8
cutout_min_size == <<2, 10>>
cutout_max_size == <<8, 10>>

---------------------------------------------------------------------------
(* ContainerTransform: the occupancy grid.                                 *)

\* the cells range(start_row, start_row + height_cells) x range(start_col, ...)
SpanCells(start_row, start_col, width_cells, height_cells) ==
    {<<row, col>> : row \in start_row .. start_row + height_cells - 1,
                    col \in start_col .. start_col + width_cells - 1}

\* variant: only the top-left cell of the span is looked at
_is_corner_available(start_row, start_col, width_cells, height_cells) ==
    ~(start_row >= grid_rows \/ start_col >= grid_cols
      \/ <<start_row, start_col>> \in grid)

_is_space_available(start_row, start_col, width_cells, height_cells) ==
    \A cell \in SpanCells(start_row, start_col, width_cells, height_cells) :
        ~(cell[1] >= grid_rows \/ cell[2] >= grid_cols \/ cell \in grid)

\* available_positions, as a set; the code appends them in row-major order
\* variant: the last row and the last column of start positions are left out
available_positions_short(width_cells, height_cells) ==
    {p \in (0 .. grid_rows - height_cells - 1)
                \X (0 .. grid_cols - width_cells - 1) :
        _is_space_available(p[1], p[2], width_cells, height_cells)}
available_positions(width_cells, height_cells) ==
    {p \in (0 .. grid_rows - height_cells) \X (0 .. grid_cols - width_cells) :
        _is_space_available(p[1], p[2], width_cells, height_cells)}

\* index of p in the row-major list of S
RowMajorIndex(p, S) ==
    Cardinality({q \in S : q[1] < p[1] \/ (q[1] = p[1] /\ q[2] < p[2])})

\* the values _find_grid_space may return
_find_grid_space(width_cells, height_cells) ==
    LET S == available_positions(width_cells, height_cells)
        n == Cardinality(S)
    IN  IF S = {} THEN {<<-1, -1>>}
        ELSE IF rng.pos = "all" THEN S
        ELSE {p \in S : \E k \in 0 .. PosRes - 1 :
                            RowMajorIndex(p, S) = (k * n) \div PosRes}

\* variant: only the first row of the span is marked
_occupy_first_row(start_row, start_col, width_cells, height_cells) ==
    grid \cup SpanCells(start_row, start_col, width_cells, 1)
_occupy_grid_space(start_row, start_col, width_cells, height_cells) ==
    grid \cup SpanCells(start_row, start_col, width_cells, height_cells)

---------------------------------------------------------------------------
(* ContainerTransform.generate_container_settings: the grid planner.       *)

\* (name, weight in hundredths)
\* variant: the square is the likeliest type
container_types_square_first ==
    << <<"vertical_stripe", 30>>, <<"horizontal_stripe", 30>>, <<"square", 40>> >>
container_types ==
    << <<"vertical_stripe", 35>>, <<"horizontal_stripe", 35>>, <<"square", 30>> >>

\* random.choices(names, weights): any name of positive weight
WeightedChoice ==
    {container_types[k][1] : k \in {j \in 1 .. Len(container_types) :
                                        container_types[j][2] > 0}}

\* random.random() < 0.3 at the sample k / RandRes
SizeAdjusted(k) == 10 * k < 3 * RandRes

\* lines 92-96: 0 when random.random() >= 0.3, else random.randint(1, 2)
SizeAdjustments ==
    (IF \E k \in rng.unit : ~SizeAdjusted(k) THEN {0} ELSE {})
    \cup (IF \E k \in rng.unit : SizeAdjusted(k) THEN RandInt(1, 2) ELSE {})

\* lines 78-96: the cell spans one loop iteration may draw
SpanDraws ==
    LET vertical ==
            {[container_type |-> "vertical_stripe", width_cells |-> w,
              height_cells |-> IF a = 0 THEN h ELSE Min(8, h + a),
              is_vertical |-> TRUE] :
                w \in RandInt(1, 3), h \in RandInt(3, 6), a \in SizeAdjustments}
        horizontal ==
            {[container_type |-> "horizontal_stripe",
              width_cells |-> IF a = 0 THEN w ELSE Min(12, w + a),
              height_cells |-> h, is_vertical |-> FALSE] :
                w \in RandInt(3, 6), h \in RandInt(1, 3), a \in SizeAdjustments}
        square ==
            {[container_type |-> "square", width_cells |-> size,
              height_cells |-> size, is_vertical |-> v] :
                size \in RandInt(2, 4), v \in Choice(<<TRUE, FALSE>>)}
    IN  {s \in vertical \cup horizontal \cup square :
            s.container_type \in WeightedChoice}

\* lines 103-130: the container built for span s placed at <<row, col>>
GridContainer(s, row, col, ksv, kx, ky, kc, kcx, kcy, rotation) ==
    LET base_width_scale ==
            RDiv(RMul(RInt(s.width_cells), cell_width), RInt(display_width))
        base_height_scale ==
            RDiv(RMul(RInt(s.height_cells), cell_height), RInt(display_height))
        scale_variation == Uniform(<<9, 10>>, <<11, 10>>, ksv)
        width_scale == RMul(base_width_scale, scale_variation)
        height_scale == RMul(base_height_scale, scale_variation)
        x0 == RTrunc(RAdd(RAdd(RMul(RInt(col), RAdd(cell_width, RInt(spacing))),
                               RInt(spacing)),
                          Uniform(RInt(-spacing), RInt(spacing), kx)))
        y0 == RTrunc(RAdd(RAdd(RMul(RInt(row), RAdd(cell_height, RInt(spacing))),
                               RInt(spacing)),
                          Uniform(RInt(-spacing), RInt(spacing), ky)))
        x == Max(spacing, Min(x0, display_width
                                  - RTrunc(RMul(width_scale, RInt(display_width)))
                                  - spacing))
        y == Max(spacing, Min(y0, display_height
                                  - RTrunc(RMul(height_scale, RInt(display_height)))
                                  - spacing))
    IN  [width_scale |-> width_scale,
         height_scale |-> height_scale,
         position |-> <<x, y>>,
         cutout_size |-> Uniform(cutout_min_size, cutout_max_size, kc),
         cutout_x |-> Norm(kcx, RandRes),
         cutout_y |-> Norm(kcy, RandRes),
         is_vertical |-> s.is_vertical,
         rotation |-> rotation]

\* line 129: random.choice([0, 90]) if is_vertical else random.choice([0, 270])
\* variant: any of the four rotations, whatever the orientation
rotation_choices_free(is_vertical) == Choice(<<0, 90, 180, 270>>)
\* variant: the two lists are exchanged
rotation_choices_exchanged(is_vertical) ==
    IF is_vertical THEN Choice(<<0, 270>>) ELSE Choice(<<0, 90>>)
rotation_choices(is_vertical) ==
    IF is_vertical THEN Choice(<<0, 90>>) ELSE Choice(<<0, 270>>)

\* line 68: attempts = count * 3
\* variant: a budget of four attempts per container
attempt_budget_of_four(n) == n * 4
attempt_budget(n) == n * 3

\* line 71: while placed < count and attempts > 0
\* variant: the loop gives up with one attempt left
GridContinuesAboveOne == placed < count /\ attempts > 1
\* variant: the loop stops on the budget alone
GridContinuesOnBudget == attempts > 0
GridContinues == placed < count /\ attempts > 0

\* lines 57-69
GridCall ==
    /\ mode = "grid"
    /\ pc = "idle"
    /\ \E n \in min_objects .. max_objects :
        /\ count' = n
        /\ attempts' = attempt_budget(n)
    /\ containers' = <<>>
    /\ spans' = <<>>
    /\ types' = <<>>
    /\ grid' = {}
    /\ placed' = 0
    /\ iterations' = 0
    /\ pc' = "loop"
    /\ UNCHANGED <<config, calls, compVars, runVars, legacyVars>>

\* a planner is called again at most MaxCalls times
MaxCalls == 2

\* variant: line 59 is missing, the grid of the call before is kept
GridCallAgainOnUsedGrid ==
    /\ mode = "grid"
    /\ pc = "done"
    /\ calls < MaxCalls
    /\ \E n \in min_objects .. max_objects :
        /\ count' = n
        /\ attempts' = attempt_budget(n)
    /\ containers' = <<>>
    /\ spans' = <<>>
    /\ types' = <<>>
    /\ placed' = 0
    /\ iterations' = 0
    /\ calls' = calls + 1
    /\ pc' = "loop"
    /\ UNCHANGED <<config, compVars, runVars, legacyVars, grid>>

\* lines 57-69, a later call on the same planner: self.grid holds what the
\* call before marked
GridCallAgain ==
    /\ mode = "grid"
    /\ pc = "done"
    /\ calls < MaxCalls
    /\ \E n \in min_objects .. max_objects :
        /\ count' = n
        /\ attempts' = attempt_budget(n)
    /\ containers' = <<>>
    /\ spans' = <<>>
    /\ types' = <<>>
    /\ grid' = {}
    /\ placed' = 0
    /\ iterations' = 0
    /\ calls' = calls + 1
    /\ pc' = "loop"
    /\ UNCHANGED <<config, compVars, runVars, legacyVars>>

\* one iteration of the while loop in which _find_grid_space finds a position
GridPlace ==
    /\ mode = "grid"
    /\ pc = "loop"
    /\ GridContinues
    /\ \E s \in SpanDraws :
       \E p \in _find_grid_space(s.width_cells, s.height_cells) :
        /\ p[1] # -1
        /\ \E ksv \in rng.sv, kx \in rng.jit, ky \in rng.jit, kc \in rng.cut,
              kcx \in rng.cxy, kcy \in rng.cxy,
              rotation \in rotation_choices(s.is_vertical) :
            containers' = Append(containers,
                GridContainer(s, p[1], p[2], ksv, kx, ky, kc, kcx, kcy, rotation))
        /\ spans' = Append(spans,
                SpanCells(p[1], p[2], s.width_cells, s.height_cells))
        /\ types' = Append(types, s.container_type)
        /\ grid' = _occupy_grid_space(p[1], p[2], s.width_cells, s.height_cells)
    /\ placed' = placed + 1
    /\ attempts' = attempts - 1
    /\ iterations' = iterations + 1
    /\ UNCHANGED <<config, calls, compVars, runVars, legacyVars, pc, count>>

\* one iteration of the while loop in which _find_grid_space returns (-1, -1)
GridMiss ==
    /\ mode = "grid"
    /\ pc = "loop"
    /\ GridContinues
    /\ {s \in SpanDraws :
            <<-1, -1>> \in _find_grid_space(s.width_cells, s.height_cells)} # {}
    /\ attempts' = attempts - 1
    /\ iterations' = iterations + 1
    /\ UNCHANGED <<config, calls, compVars, runVars, legacyVars, pc, count, containers, spans, types, grid, placed>>

\* lines 138-141: the loop condition fails and the list is returned
GridReturn ==
    /\ mode = "grid"
    /\ pc = "loop"
    /\ ~GridContinues
    /\ pc' = "done"
    /\ UNCHANGED <<config, calls, compVars, runVars, legacyVars, gridVars, count, containers, spans, types,
                   iterations>>

---------------------------------------------------------------------------
(* VideoPlayer.generate_container_settings: the legacy planner.            *)

max_attempts == 50
grid_size == 20
\* for _ in range(100)
position_tries == 100

\* VideoPlayer.__init__: min_scale = 0.3, max_scale = 1.0
min_scale == <<3, 10>>
max_scale == <<10, 10>>
\* VideoPlayer.__init__: cutout_min_size = 0.3, cutout_max_size = 0.7
player_cutout_min_size == <<3, 10>>
player_cutout_max_size == <<7, 10>>

\* random.random() > 0.5 at the sample k / RandRes
DrawsVertical(k) == 2 * k > RandRes

\* lines 54-73: the size one outer iteration may draw
SizeDraws ==
    {[is_vertical |-> DrawsVertical(kv),
      width |-> IF DrawsVertical(kv)
                THEN Uniform(min_scale, max_scale, kb)
                ELSE RMul(Uniform(min_scale, max_scale, kb),
                          Uniform(<<4, 10>>, <<8, 10>>, ka)),
      height |-> IF DrawsVertical(kv)
                 THEN RMul(Uniform(min_scale, max_scale, kb),
                           Uniform(<<15, 10>>, <<25, 10>>, ka))
                 ELSE Uniform(min_scale, max_scale, kb)] :
        kv \in rng.unit, ka \in rng.asp, kb \in rng.base}

target_width_of(size) == RTrunc(RMul(RInt(display_width), size.width))
target_height_of(size) == RTrunc(RMul(RInt(display_height), size.height))

\* random.randint(0, m) sampled at floor(k * m / RandRes) for k in ks
RandBelow(m, ks) == {(k * m) \div RandRes : k \in ks}

\* lines 85-88 and 109-112: the grid rectangle of a container at (x, y)
LegacyRect(x, y, target_width, target_height) ==
    [grid_x |-> Trunc(x * grid_size, display_width),
     grid_y |-> Trunc(y * grid_size, display_height),
     grid_w |-> Max(1, Trunc(target_width * grid_size, display_width)),
     grid_h |-> Max(1, Trunc(target_height * grid_size, display_height))]

\* lines 92-93 and 114-115: the cells <<gy, gx>> the two loops visit
LegacyCells(r) ==
    {<<gy, gx>> :
        gy \in Max(0, r.grid_y) .. Min(grid_size, r.grid_y + r.grid_h) - 1,
        gx \in Max(0, r.grid_x) .. Min(grid_size, r.grid_x + r.grid_w) - 1}

\* lines 91-98
OverlapIn(occupied, r) == LegacyCells(r) \cap occupied # {}
Overlap(r) == OverlapIn(occupied_grid, r)

\* lines 119-128
LegacyContainer(size, x, y, kc, kcx, kcy, rotation) ==
    [width_scale |-> size.width,
     height_scale |-> size.height,
     position |-> <<x, y>>,
     cutout_size |-> Uniform(player_cutout_min_size, player_cutout_max_size, kc),
     cutout_x |-> Norm(kcx, RandRes),
     cutout_y |-> Norm(kcy, RandRes),
     is_vertical |-> size.is_vertical,
     rotation |-> rotation]

\* lines 41-49
LegacyCall ==
    /\ mode = "legacy"
    /\ pc = "idle"
    /\ \E n \in min_objects .. max_objects : count' = n
    /\ containers' = <<>>
    /\ spans' = <<>>
    /\ types' = <<>>
    /\ occupied_grid' = {}
    /\ attempt_count' = 0
    /\ iterations' = 0
    /\ pc' = "outer"
    /\ UNCHANGED <<config, calls, compVars, runVars, gridVars, cand, tries>>

\* lines 50-76 with nonzero pixel dimensions: go on to the position search
LegacyBegin ==
    /\ mode = "legacy"
    /\ pc = "outer"
    /\ Len(containers) < count /\ attempt_count < max_attempts
    /\ attempt_count' = attempt_count + 1
    /\ iterations' = iterations + 1
    /\ \E size \in SizeDraws :
        /\ ~(target_width_of(size) = 0 \/ target_height_of(size) = 0)
        /\ cand' = size
    /\ tries' = 0
    /\ pc' = "inner"
    /\ UNCHANGED <<config, calls, compVars, runVars, gridVars, count, containers, spans, types, occupied_grid>>

\* lines 50-76 with a zero pixel dimension: continue
LegacySkip ==
    /\ mode = "legacy"
    /\ pc = "outer"
    /\ Len(containers) < count /\ attempt_count < max_attempts
    /\ attempt_count' = attempt_count + 1
    /\ iterations' = iterations + 1
    /\ {size \in SizeDraws :
            target_width_of(size) = 0 \/ target_height_of(size) = 0} # {}
    /\ UNCHANGED <<config, calls, compVars, runVars, gridVars, pc, count, containers, spans, types, occupied_grid,
                   cand, tries>>

\* lines 80-98: one pass of the position search that finds an overlap
LegacyTryOverlap ==
    /\ mode = "legacy"
    /\ pc = "inner"
    /\ tries < position_tries
    /\ {p \in RandBelow(Max(0, display_width - target_width_of(cand)), rng.x)
                \X RandBelow(Max(0, display_height - target_height_of(cand)), rng.y) :
            Overlap(LegacyRect(p[1], p[2], target_width_of(cand),
                               target_height_of(cand)))} # {}
    /\ tries' = tries + 1
    /\ UNCHANGED <<config, calls, compVars, runVars, gridVars, pc, count, containers, spans, types, occupied_grid,
                   attempt_count, cand, iterations>>

\* lines 80-129: a pass that finds no overlap; the container is created
LegacyPlace ==
    /\ mode = "legacy"
    /\ pc = "inner"
    /\ tries < position_tries
    /\ \E x \in RandBelow(Max(0, display_width - target_width_of(cand)), rng.x),
          y \in RandBelow(Max(0, display_height - target_height_of(cand)), rng.y) :
        LET r == LegacyRect(x, y, target_width_of(cand), target_height_of(cand))
        IN  /\ ~Overlap(r)
            /\ occupied_grid' = occupied_grid \cup LegacyCells(r)
            /\ spans' = Append(spans, LegacyCells(r))
            /\ UNCHANGED types
            /\ \E kc \in rng.cut, kcx \in rng.cxy, kcy \in rng.cxy,
                  rotation \in Choice(<<0, 90, 180, 270>>) :
                containers' = Append(containers,
                    LegacyContainer(cand, x, y, kc, kcx, kcy, rotation))
    /\ tries' = 0
    /\ pc' = "outer"
    /\ UNCHANGED <<config, calls, compVars, runVars, gridVars, count, attempt_count, cand, iterations>>

\* lines 104-106: all passes overlapped, best_position is None: continue
LegacyGiveUp ==
    /\ mode = "legacy"
    /\ pc = "inner"
    /\ tries = position_tries
    /\ tries' = 0
    /\ pc' = "outer"
    /\ UNCHANGED <<config, calls, compVars, runVars, gridVars, count, containers, spans, types, occupied_grid,
                   attempt_count, cand, iterations>>

\* lines 131-134: the loop condition fails and the list is returned
LegacyReturn ==
    /\ mode = "legacy"
    /\ pc = "outer"
    /\ ~(Len(containers) < count /\ attempt_count < max_attempts)
    /\ pc' = "done"
    /\ UNCHANGED <<config, calls, compVars, runVars, gridVars, legacyVars, count, containers, spans, types,
                   iterations>>

---------------------------------------------------------------------------
(* Frames and images.  A frame is None or has a height, a width and, as    *)
(* the model's abstraction of its pixels, one colour (a uniform frame: any *)
(* resize or crop of it has that colour).  np.zeros is colour 0.           *)

NoneFrame == [none |-> TRUE, height |-> 0, width |-> 0, colour |-> 0]
Frame(h, w, colour) == [none |-> FALSE, height |-> h, width |-> w, colour |-> colour]

\* a returned (image, (target_width, target_height)) pair
Returned(h, w, colour, fallback, target_width, target_height) ==
    [raised |-> FALSE, fallback |-> fallback, height |-> h, width |-> w,
     colour |-> IF h * w = 0 THEN 0 ELSE colour,
     size |-> <<target_width, target_height>>]

\* an exception leaves the call
Raised ==
    [raised |-> TRUE, fallback |-> FALSE, height |-> 0, width |-> 0,
     colour |-> 0, size |-> <<0, 0>>]

NoResult ==
    [raised |-> FALSE, fallback |-> FALSE, height |-> -1, width |-> -1,
     colour |-> 0, size |-> <<-1, -1>>]

\* len(range(n)[a:b]) for a Python slice a:b of an axis of length n
PySlice(a, b, n) ==
    LET lo == IF a < 0 THEN Max(0, n + a) ELSE Min(a, n)
        hi == IF b < 0 THEN Max(0, n + b) ELSE Min(b, n)
    IN  Max(0, hi - lo)

\* cv2.resize(src, (w, h)) raises on an empty source or a size that is not positive
ResizeRaises(src_h, src_w, w, h) == src_h <= 0 \/ src_w <= 0 \/ w <= 0 \/ h <= 0

\* variant: round() in place of int()
target_width_rounded(c) == RRound(RMul(RInt(display_width), c.width_scale))
\* int(self.display_width * container['width_scale'])
target_width(c) == RTrunc(RMul(RInt(display_width), c.width_scale))
\* int(self.display_height * container['height_scale'])
target_height(c) == RTrunc(RMul(RInt(display_height), c.height_scale))

---------------------------------------------------------------------------
(* ContainerTransform.apply_transform                                      *)

\* variant: np.zeros((target_width, target_height, 3)), the axes exchanged
BlackFrameTransposed(c) ==
    Returned(target_width(c), target_height(c), 0, TRUE,
             target_width(c), target_height(c))

\* lines 195-198: the except branch
BlackFrame(c) ==
    Returned(target_height(c), target_width(c), 0, TRUE,
             target_width(c), target_height(c))

\* lines 166-179: (new_width, new_height) for a frame of positive shape
\* and target_height > 0
AspectFillSize(f, tw, th) ==
    LET wide == f.width * th > tw * f.height  \* frame_aspect > target_aspect
    IN  <<IF wide THEN FloatTrunc(f.width, th, f.height) ELSE tw,
          IF wide THEN th ELSE FloatTrunc(f.height, tw, f.width)>>

\* lines 160-193: the try block; [failed |-> TRUE] when an exception is raised in it
TransformTry(f, c) ==
    LET tw == target_width(c)
        th == target_height(c)
        failure == [failed |-> TRUE, height |-> 0, width |-> 0]
    IN  IF f.none \/ f.height * f.width = 0 THEN failure  \* ValueError
        ELSE IF th = 0 THEN failure                       \* ZeroDivisionError
        ELSE
        LET new_width == AspectFillSize(f, tw, th)[1]
            new_height == AspectFillSize(f, tw, th)[2]
            x_start == Max(0, (new_width - tw) \div 2)
            y_start == Max(0, (new_height - th) \div 2)
            crop_h == PySlice(y_start, y_start + th, new_height)
            crop_w == PySlice(x_start, x_start + tw, new_width)
        IN  IF ResizeRaises(f.height, f.width, new_width, new_height) THEN failure
            ELSE IF <<crop_h, crop_w>> # <<th, tw>>
                 THEN IF ResizeRaises(crop_h, crop_w, tw, th) THEN failure
                      ELSE [failed |-> FALSE, height |-> th, width |-> tw]
            ELSE [failed |-> FALSE, height |-> crop_h, width |-> crop_w]

apply_transform(f, c) ==
    LET r == TransformTry(f, c)
    IN  IF r.failed THEN BlackFrame(c)
        ELSE Returned(r.height, r.width, f.colour, FALSE,
                      target_width(c), target_height(c))

---------------------------------------------------------------------------
(* VideoPlayer.apply_container_transform                                   *)

\* lines 145-150: the (height, width) of the frame after cv2.rotate
Rotated(f, rotation) ==
    IF rotation \in {90, 270} THEN <<f.width, f.height>> ELSE <<f.height, f.width>>

\* lines 153-170: the shape of frame[start_y:start_y+crop_height, start_x:...]
CutoutShape(f, c) ==
    LET crop_size == RTrunc(RMul(RInt(Min(f.width, f.height)), c.cutout_size))
        crop_width == Min(IF c.is_vertical THEN crop_size
                          ELSE Trunc(crop_size * 3, 2), f.width)
        crop_height == Min(IF c.is_vertical THEN Trunc(crop_size * 3, 2)
                           ELSE crop_size, f.height)
        start_x == RTrunc(RMul(RInt(f.width - crop_width), c.cutout_x))
        start_y == RTrunc(RMul(RInt(f.height - crop_height), c.cutout_y))
        shape == Rotated(f, c.rotation)
    IN  [start_x |-> start_x, start_y |-> start_y,
         crop_width |-> crop_width, crop_height |-> crop_height,
         height |-> PySlice(start_y, start_y + crop_height, shape[1]),
         width |-> PySlice(start_x, start_x + crop_width, shape[2])]

\* lines 173-181: (new_width, new_height) for a cutout of positive shape
FillSize(cut_h, cut_w, tw, th) ==
    LET scale == IF tw * cut_h >= th * cut_w THEN <<tw, cut_w>> ELSE <<th, cut_h>>
    IN  <<FloatTrunc(cut_w, scale[1], scale[2]),
          FloatTrunc(cut_h, scale[1], scale[2])>>

apply_container_transform(f, c) ==
    LET tw == target_width(c)
        th == target_height(c)
    IN  IF f.none THEN Raised                              \* AttributeError
        ELSE IF f.height * f.width = 0 THEN Raised         \* cv2.error / ZeroDivisionError
        ELSE
        LET cut == CutoutShape(f, c)
        IN  IF cut.width = 0 \/ cut.height = 0 THEN Raised \* ZeroDivisionError
            ELSE
            LET new == FillSize(cut.height, cut.width, tw, th)
                new_width == new[1]
                new_height == new[2]
                start_x == (new_width - tw) \div 2
                start_y == (new_height - th) \div 2
                end_x == Min(start_x + tw, new_width)
                end_y == Min(start_y + th, new_height)
                valid_height == Min(end_y - start_y, th)
                valid_width == Min(end_x - start_x, tw)
                dest == <<PySlice(0, valid_height, th), PySlice(0, valid_width, tw)>>
                src == <<PySlice(start_y, start_y + valid_height, new_height),
                         PySlice(start_x, start_x + valid_width, new_width)>>
            IN  IF ResizeRaises(cut.height, cut.width, new_width, new_height)
                THEN Raised                                \* cv2.error
                ELSE IF dest # src THEN Raised             \* ValueError (broadcast)
                ELSE Returned(th, tw, f.colour, FALSE, tw, th)

---------------------------------------------------------------------------
(* The two compositors, called on a frame and a container.                 *)

\* ContainerTransform.apply_transform(frame, container)
ApplyTransform ==
    /\ mode = "transform"
    /\ pc = "idle"
    /\ result' = apply_transform(frame, container)
    /\ pc' = "done"
    /\ UNCHANGED <<config, calls, planVars, gridVars, legacyVars, runVars, frame, container>>

\* VideoPlayer.apply_container_transform(frame, container)
ApplyContainerTransform ==
    /\ mode = "legacy_transform"
    /\ pc = "idle"
    /\ result' = apply_container_transform(frame, container)
    /\ pc' = "done"
    /\ UNCHANGED <<config, calls, planVars, gridVars, legacyVars, runVars, frame, container>>

---------------------------------------------------------------------------
(* VideoPlayer.run: the playback loop.                                     *)

\* the containers one outer iteration of the legacy planner can create on the
\* occupancy `occupied`, each with the cells it marks (lines 54-129)
LegacyPlacements(occupied) ==
    UNION {
        {[container |-> LegacyContainer(size, p[1], p[2], kc, kcx, kcy, rotation),
          cells |-> LegacyCells(LegacyRect(p[1], p[2], target_width_of(size),
                                           target_height_of(size)))] :
            p \in {q \in RandBelow(Max(0, display_width - target_width_of(size)),
                                   rng.x)
                         \X RandBelow(Max(0, display_height - target_height_of(size)),
                                      rng.y) :
                     ~OverlapIn(occupied,
                                LegacyRect(q[1], q[2], target_width_of(size),
                                           target_height_of(size)))},
            kc \in rng.cut, kcx \in rng.cxy, kcy \in rng.cxy,
            rotation \in Choice(<<0, 90, 180, 270>>)} :
        size \in {z \in SizeDraws :
                    target_width_of(z) # 0 /\ target_height_of(z) # 0}}

\* an outer iteration of the legacy planner can end without a container:
\* a zero pixel dimension, or 100 overlapping position draws
LegacyCanFail(occupied) ==
    \E size \in SizeDraws :
        \/ target_width_of(size) = 0 \/ target_height_of(size) = 0
        \/ \E x \in RandBelow(Max(0, display_width - target_width_of(size)), rng.x),
              y \in RandBelow(Max(0, display_height - target_height_of(size)), rng.y) :
                OverlapIn(occupied, LegacyRect(x, y, target_width_of(size),
                                               target_height_of(size)))

\* the lists generate_container_settings can return for count = n < max_attempts
\* once `list` is placed on `occupied`
RECURSIVE LegacyLists(_, _, _)
LegacyLists(list, occupied, n) ==
    IF Len(list) = n THEN {list}
    ELSE (IF LegacyCanFail(occupied) THEN {list} ELSE {})
         \cup UNION {LegacyLists(Append(list, p.container), occupied \cup p.cells, n) :
                        p \in LegacyPlacements(occupied)}

\* what self.generate_container_settings() can return
generate_container_settings ==
    UNION {LegacyLists(<<>>, {}, n) : n \in min_objects .. max_objects}

\* the frames cap.read() delivers
VideoFrames == {Frame(480, 640, 255), Frame(1, 1, 255)}

MaxScenes == 2

\* lines 217-247, the video cannot be opened: continue
RunOpenFail ==
    /\ mode = "run"
    /\ pc = "top"
    /\ cap # "open"
    /\ cap' \in {cap, "unopened", "none"}
    /\ UNCHANGED <<config, calls, planVars, gridVars, legacyVars, compVars, pc, objects, i,
                   outcomes, scenes>>

\* lines 217-240, the video is opened and the containers are generated
RunOpen ==
    /\ mode = "run"
    /\ pc = "top"
    /\ cap # "open"
    /\ scenes < MaxScenes
    /\ cap' = "open"
    /\ objects' \in generate_container_settings
    /\ scenes' = scenes + 1
    /\ pc' = "read"
    /\ UNCHANGED <<config, calls, planVars, gridVars, legacyVars, compVars, i, outcomes>>

\* lines 250-259 (and 306-311), no frame: the capture is released
RunReadFail ==
    /\ mode = "run"
    /\ pc = "read" \/ (pc = "top" /\ cap = "open")
    /\ cap' = "none"
    /\ pc' = "top"
    /\ UNCHANGED <<config, calls, planVars, gridVars, legacyVars, compVars, objects, i,
                   outcomes, scenes>>

\* lines 250-255, a frame is read
RunReadFrame ==
    /\ mode = "run"
    /\ pc = "read" \/ (pc = "top" /\ cap = "open")
    /\ frame' \in VideoFrames
    /\ i' = 1
    /\ outcomes' = <<>>
    /\ pc' = "draw"
    /\ UNCHANGED <<config, calls, planVars, gridVars, legacyVars, container, result, cap,
                   objects, scenes>>

\* line 298: display[y:y+h, x:x+w] = container_frame raises unless the shapes agree
BlitRaises(c, image) ==
    <<PySlice(c.position[2], c.position[2] + image.size[2], display_height),
      PySlice(c.position[1], c.position[1] + image.size[1], display_width)>>
        # <<image.height, image.width>>

\* lines 262-302: what the loop body does with container c
DrawOutcome(c) ==
    LET image == apply_container_transform(frame, c)
    IN  IF image.raised THEN "error"
        ELSE IF BlitRaises(c, image) THEN "error"
        ELSE "drawn"

\* variant: no try/except around the loop body, an exception ends the pass
RunDrawContainerUnguarded ==
    /\ mode = "run"
    /\ pc = "draw"
    /\ i <= Len(objects)
    /\ container' = objects[i]
    /\ result' = apply_container_transform(frame, objects[i])
    /\ outcomes' = Append(outcomes, [index |-> i, outcome |-> DrawOutcome(objects[i])])
    /\ i' = IF DrawOutcome(objects[i]) = "error" THEN Len(objects) + 1 ELSE i + 1
    /\ UNCHANGED <<config, calls, planVars, gridVars, legacyVars, frame, pc, cap, objects,
                   scenes>>

\* variant: the loop takes each container off the list (self.objects.pop(0))
RunDrawContainerConsuming ==
    /\ mode = "run"
    /\ pc = "draw"
    /\ i <= Len(objects)
    /\ container' = objects[1]
    /\ result' = apply_container_transform(frame, objects[1])
    /\ outcomes' = Append(outcomes, [index |-> Len(outcomes) + 1,
                                     outcome |-> DrawOutcome(objects[1])])
    /\ objects' = Tail(objects)
    /\ UNCHANGED <<config, calls, planVars, gridVars, legacyVars, frame, pc, cap, i, scenes>>

\* lines 262-302, one pass of "for i, container in enumerate(self.objects)"
RunDrawContainer ==
    /\ mode = "run"
    /\ pc = "draw"
    /\ i <= Len(objects)
    /\ container' = objects[i]
    /\ result' = apply_container_transform(frame, objects[i])
    /\ outcomes' = Append(outcomes, [index |-> i, outcome |-> DrawOutcome(objects[i])])
    /\ i' = i + 1
    /\ UNCHANGED <<config, calls, planVars, gridVars, legacyVars, frame, pc, cap, objects,
                   scenes>>

\* lines 304-314, the for loop is over: imshow, waitKey
RunShow ==
    /\ mode = "run"
    /\ pc = "draw"
    /\ i > Len(objects)
    /\ \/ pc' = "top" /\ cap' = cap
       \/ pc' = "exit" /\ cap' = "none"
    /\ UNCHANGED <<config, calls, planVars, gridVars, legacyVars, compVars, objects, i,
                   outcomes, scenes>>

---------------------------------------------------------------------------
(* The runs explored.                                                      *)

\* one container, every size at sampled positions: the geometry of a container
RngGeometry ==
    [ints |-> "all", pick |-> "all", pos |-> "sampled",
     unit |-> 0 .. RandRes - 1, sv |-> {0, RandRes}, jit |-> {0, RandRes},
     cut |-> {0}, cxy |-> {0}, asp |-> {0}, base |-> {0}, x |-> {0}, y |-> {0}]

\* the extreme sizes, two containers
RngEnds ==
    [ints |-> "ends", pick |-> "first", pos |-> "sampled",
     unit |-> 0 .. RandRes - 1, sv |-> {0}, jit |-> {0},
     cut |-> {0}, cxy |-> {0}, asp |-> {0}, base |-> {0}, x |-> {0}, y |-> {0}]

\* the largest sizes at the sampled free positions: the grid fills up
RngPacking ==
    [ints |-> "max", pick |-> "first", pos |-> "sampled",
     unit |-> {0}, sv |-> {0}, jit |-> {0},
     cut |-> {0}, cxy |-> {0}, asp |-> {0}, base |-> {0}, x |-> {0}, y |-> {0}]

\* legacy planner, one container of every size
RngLegacySizes ==
    [ints |-> "all", pick |-> "all", pos |-> "sampled",
     unit |-> 0 .. RandRes - 1, sv |-> {0}, jit |-> {0},
     cut |-> {0}, cxy |-> {0}, asp |-> 0 .. RandRes,
     base |-> 0 .. RandRes, x |-> {0, RandRes}, y |-> {0, RandRes}]

\* legacy planner, small containers at the left or the right edge
RngLegacyPair ==
    [ints |-> "all", pick |-> "first", pos |-> "sampled",
     unit |-> {RandRes - 1}, sv |-> {0}, jit |-> {0},
     cut |-> {0}, cxy |-> {0}, asp |-> {0}, base |-> {0},
     x |-> {0, RandRes}, y |-> {0}]

\* legacy planner, the smallest size only
RngLegacySmall ==
    [ints |-> "all", pick |-> "first", pos |-> "sampled",
     unit |-> 0 .. RandRes - 1, sv |-> {0}, jit |-> {0},
     cut |-> {0}, cxy |-> {0}, asp |-> {0}, base |-> {0}, x |-> {0}, y |-> {0}]

NoContainer ==
    [width_scale |-> <<0, 1>>, height_scale |-> <<0, 1>>, position |-> <<0, 0>>,
     cutout_size |-> <<0, 1>>, cutout_x |-> <<0, 1>>, cutout_y |-> <<0, 1>>,
     is_vertical |-> FALSE, rotation |-> 0]

ObjectRanges ==
    {<<1, MaxObjects>>, <<2, MaxObjects - 1>>, <<MaxObjects, MaxObjects>>}

Config(m, canvas, range, r) ==
    [mode |-> m, canvas |-> canvas, objects |-> range, rng |-> r]

PlanConfigs ==
    {Config("grid", c, <<1, 1>>, RngGeometry) :
        c \in {<<1920, 1080>>, <<480, 1920>>, <<40, 30>>}}
    \cup {Config("grid", <<1920, 1080>>, <<2, 2>>, RngEnds)}
    \cup {Config("grid", <<1920, 1080>>, r, RngPacking) : r \in ObjectRanges}
    \cup {Config("grid", <<1920, 1080>>, <<4, 4>>, RngPacking)}
    \cup {Config("legacy", <<1280, 720>>, <<1, 1>>, RngLegacySizes)}
    \cup {Config("legacy", <<1280, 720>>, <<2, 2>>, RngLegacyPair)}
    \cup {Config("legacy", <<3, 3>>, <<1, 1>>, RngLegacySmall)}

\* the run of VideoPlayer.run: tall containers at the left or the right edge
RngRun ==
    [ints |-> "all", pick |-> "first", pos |-> "sampled",
     unit |-> {RandRes - 1}, sv |-> {0}, jit |-> {0},
     cut |-> {0}, cxy |-> {0}, asp |-> {RandRes}, base |-> {0, 1},
     x |-> {0, RandRes}, y |-> {0}]

RunConfigs == {Config("run", <<1280, 720>>, <<1, 2>>, RngRun)}

\* the arguments of the compositors
FrameInputs ==
    {NoneFrame, Frame(0, 0, 0), Frame(0, 10, 0), Frame(1, 1, 255),
     Frame(10, 10, 255), Frame(49, 49, 255), Frame(100, 1000, 255),
     Frame(1000, 100, 255),
     Frame(480, 640, 255), Frame(480, 640, 0)}

ScaleInputs ==
    {<<1, 200>>, <<1, 2>>, <<111, 200>>, <<123, 200>>, <<41, 50>>, <<1, 1>>}

TransformInputs ==
    {[NoContainer EXCEPT !.width_scale = w, !.height_scale = h] :
        w \in ScaleInputs, h \in ScaleInputs}

LegacyTransformInputs ==
    {[width_scale |-> w, height_scale |-> h, position |-> <<0, 0>>,
      cutout_size |-> cs, cutout_x |-> cx, cutout_y |-> cy,
      is_vertical |-> v, rotation |-> r] :
        w \in {<<1, 200>>, <<1, 2>>, <<111, 200>>},
        h \in {<<1, 200>>, <<1, 2>>},
        cs \in {<<1, 1000>>, <<3, 10>>, <<7, 10>>},
        cx \in {<<0, 1>>, <<2, 3>>}, cy \in {<<0, 1>>, <<2, 3>>},
        v \in BOOLEAN, r \in {0, 90, 180, 270}}

CompConfigs ==
    {Config("transform", c, <<1, 1>>, RngPacking) :
        c \in {<<100, 100>>, <<200, 200>>, <<1920, 1080>>}}
    \cup {Config("legacy_transform", <<100, 100>>, <<1, 1>>, RngPacking)}

InitConfig(cfg) ==
    /\ mode = cfg.mode
    /\ rng = cfg.rng
    /\ display_width = cfg.canvas[1]
    /\ display_height = cfg.canvas[2]
    /\ min_objects = cfg.objects[1]
    /\ max_objects = cfg.objects[2]
    /\ count = 0
    /\ containers = <<>>
    /\ spans = <<>>
    /\ types = <<>>
    /\ grid = {}
    /\ attempts = 0
    /\ placed = 0
    /\ iterations = 0
    /\ occupied_grid = {}
    /\ attempt_count = 0
    /\ cand = [is_vertical |-> FALSE, width |-> <<0, 1>>, height |-> <<0, 1>>]
    /\ tries = 0
    /\ result = NoResult
    /\ cap = "none"
    /\ objects = <<>>
    /\ i = 0
    /\ outcomes = <<>>
    /\ scenes = 0
    /\ calls = 0

InitPlan ==
    /\ \E cfg \in PlanConfigs : InitConfig(cfg)
    /\ pc = "idle"
    /\ frame = NoneFrame
    /\ container = NoContainer

\* the grid planner called repeatedly, on the packing runs
InitReplan ==
    /\ InitConfig(Config("grid", <<1920, 1080>>, <<3, 4>>, RngPacking))
    /\ pc = "idle"
    /\ frame = NoneFrame
    /\ container = NoContainer

InitComp ==
    /\ \E cfg \in CompConfigs : InitConfig(cfg)
    /\ pc = "idle"
    /\ frame \in FrameInputs
    /\ container \in IF mode = "transform" THEN TransformInputs
                                           ELSE LegacyTransformInputs

InitRun ==
    /\ \E cfg \in RunConfigs : InitConfig(cfg)
    /\ pc = "top"
    /\ frame = NoneFrame
    /\ container = NoContainer

NextPlan ==
    \/ GridCall
    \/ GridPlace
    \/ GridMiss
    \/ GridReturn
    \/ LegacyCall
    \/ LegacyBegin
    \/ LegacySkip
    \/ LegacyTryOverlap
    \/ LegacyPlace
    \/ LegacyGiveUp
    \/ LegacyReturn

NextReplan ==
    \/ GridCall
    \/ GridPlace
    \/ GridMiss
    \/ GridReturn
    \/ GridCallAgain

NextComp ==
    \/ ApplyTransform
    \/ ApplyContainerTransform

NextRun ==
    \/ RunOpenFail
    \/ RunOpen
    \/ RunReadFail
    \/ RunReadFrame
    \/ RunDrawContainer
    \/ RunShow

Init == InitPlan \/ InitComp \/ InitRun
Next == NextPlan \/ NextReplan \/ NextComp \/ NextRun

\* everything
Spec == Init /\ [][Next]_vars
\* the two planners
SpecPlan == InitPlan /\ [][NextPlan]_vars
\* the two compositors
SpecComp == InitComp /\ [][NextComp]_vars
\* the grid planner called again and again
SpecReplan == InitReplan /\ [][NextReplan]_vars
\* the playback loop
SpecRun == InitRun /\ [][NextRun]_vars

---------------------------------------------------------------------------
(* Properties of the compositors (SpecComp).                               *)

\* int(display_width * width_scale) and int(display_height * height_scale)
TruncatedSize(c) ==
    <<Trunc(display_width * c.width_scale[1], c.width_scale[2]),
      Trunc(display_height * c.height_scale[1], c.height_scale[2])>>

\* round(display_width * width_scale) and round(display_height * height_scale)
RoundedSize(c) ==
    <<Round(display_width * c.width_scale[1], c.width_scale[2]),
      Round(display_height * c.height_scale[1], c.height_scale[2])>>

C6_NeverRaises ==
    pc = "done" => ~result.raised

\* the frame is missing or has a zero dimension
MalformedFrame == frame.none \/ frame.height = 0 \/ frame.width = 0

\* C7: apply_transform on a frame that is missing or has a zero dimension
\* returns a black image of exactly the target width and height: 50 x 50 for
\* scales of 0.5 on a canvas of 100 x 100
C7_BlackFallback ==
    (mode = "transform" /\ pc = "done" /\ MalformedFrame) =>
        /\ ~result.raised
        /\ result.fallback
        /\ result.colour = 0
        /\ <<result.width, result.height>> = TruncatedSize(container)
        /\ result.size = TruncatedSize(container)
        /\ (/\ <<display_width, display_height>> = <<100, 100>>
            /\ container.width_scale = <<1, 2>>
            /\ container.height_scale = <<1, 2>>)
                => <<result.width, result.height>> = <<50, 50>>

\* a frame of zero height composited at 0.5 x 0.5 on a canvas of 100 x 100
C7_Witness ==
    /\ mode = "transform" /\ pc = "done"
    /\ ~frame.none /\ frame.height = 0
    /\ <<display_width, display_height>> = <<100, 100>>
    /\ container.width_scale = <<1, 2>> /\ container.height_scale = <<1, 2>>
    /\ result = Returned(50, 50, 0, TRUE, 50, 50)

---------------------------------------------------------------------------
(* Properties of the planners (SpecPlan, SpecPlanFair).                    *)

\* the cells marked in the planner's occupancy grid
Marked == IF mode = "grid" THEN grid ELSE occupied_grid

\* C2 as stated, with each pixel size truncated (int(x) <= round(x), so the
\* statement with round() implies this one): every container of the list lies
\* inside the canvas, its position plus its pixel size is at most the canvas
\* size on each axis
C2_WithinCanvas ==
    \A k \in 1 .. Len(containers) :
        /\ containers[k].position[1] + TruncatedSize(containers[k])[1]
               <= display_width
        /\ containers[k].position[2] + TruncatedSize(containers[k])[2]
               <= display_height

\* C3: within one planning call the spans of the placed containers are
\* pairwise disjoint, and every placed container's cells are marked
C3_DisjointSpans ==
    /\ Len(spans) = Len(containers)
    /\ \A a \in 1 .. Len(spans) :
        /\ spans[a] # {}
        /\ spans[a] \subseteq Marked
        /\ \A b \in 1 .. Len(spans) : a # b => spans[a] \cap spans[b] = {}

\* both planners have returned lists of several containers
C3_Witness ==
    /\ pc = "done"
    /\ \/ mode = "grid" /\ Len(containers) >= 3
       \/ mode = "legacy" /\ Len(containers) >= 2

\* C4: the count drawn for a call lies in [min_objects, max_objects] and the
\* list is never longer than the count, hence never longer than max_objects
C4_LengthWithinCount ==
    pc # "idle" =>
        /\ min_objects <= count /\ count <= max_objects
        /\ Len(containers) <= count
        /\ Len(containers) <= max_objects

\* a call returns a list shorter than its count, another one a full list
C4_Witness ==
    /\ pc = "done"
    /\ min_objects < max_objects
    /\ count = max_objects
    /\ 0 < Len(containers) /\ Len(containers) < count

\* the loop bounds hold at every point of a planning call
LoopBounds ==
    /\ mode = "grid" /\ pc # "idle" =>
        /\ iterations <= 3 * count
        /\ iterations + attempts = 3 * count
    /\ mode = "legacy" /\ pc # "idle" =>
        /\ iterations <= 50
        /\ iterations = attempt_count
        /\ tries <= 100

\* the steps a planning call has left at most: the attempts left in the grid
\* planner; in the legacy planner 102 for each outer iteration left, and in
\* the position search the tries left
StepsLeft ==
    CASE pc = "done" -> 0
      [] pc = "idle" -> 3 * max_objects + 50 * 102 + 2
      [] pc = "loop" -> attempts + 1
      [] pc = "outer" -> (50 - attempt_count) * 102 + 1
      [] pc = "inner" -> (50 - attempt_count) * 102 + 1 + (101 - tries)

\* C5: every planning call returns whatever is drawn: each step of a call
\* lowers a natural number, the grid planner's loop runs at most 3 * count
\* iterations, each of them taking one attempt off the budget, and the legacy
\* planner runs at most 50 outer iterations of at most 100 tries
C5_Terminates ==
    /\ [](LoopBounds /\ StepsLeft >= 0)
    /\ [][StepsLeft' < StepsLeft]_vars

\* calls that used their whole budget: 3 * count iterations with misses, and
\* 50 outer iterations, before returning a short list
C5_Witness ==
    /\ pc = "done"
    /\ Len(containers) < count
    /\ \/ mode = "grid" /\ iterations = 3 * count /\ attempts = 0
       \/ mode = "legacy" /\ iterations = 50

---------------------------------------------------------------------------
(* Properties of the playback loop (SpecRun).                              *)

\* the containers handled so far in the current pass are the first ones of the
\* list, each once and in order
PassInOrder ==
    pc = "draw" =>
        /\ Len(outcomes) = i - 1
        /\ Len(outcomes) <= Len(objects)
        /\ \A k \in 1 .. Len(outcomes) :
            /\ outcomes[k].index = k
            /\ outcomes[k].outcome = DrawOutcome(objects[k])

\* a pass ends only when every container of the list has been handled
PassCompletes ==
    (pc = "draw" /\ pc' # "draw") => Len(outcomes) = Len(objects)

\* C8: in a pass every container of the list is processed once, in order,
\* whether or not an earlier one failed: an exception in one container's
\* processing does not end the pass
C8_PassCoversAll == []PassInOrder /\ [][PassCompletes]_vars

\* a pass in which the first container failed and the second one was drawn
C8_Witness ==
    /\ pc = "draw"
    /\ Len(objects) = 2
    /\ Len(outcomes) = 2
    /\ outcomes[1].outcome = "error"
    /\ outcomes[2].outcome = "drawn"

\* a step opens a video
OpensVideo == pc = "top" /\ cap # "open" /\ cap' = "open"

\* C10: self.objects changes only in a step that opens a video; no other
\* step of the loop, the compositor call included, changes the list or a
\* container in it
C10_ListFixedPerScene == [][objects' # objects => OpensVideo]_vars

\* the second scene's list after a frame of it has been composited
C10_Witness ==
    /\ scenes = 2
    /\ pc = "draw"
    /\ Len(objects) = 2
    /\ i > Len(objects)
    /\ result # NoResult

\* the container's image was returned and its rectangle lies partly inside
\* and partly outside the canvas
RectanglePastCanvas(c) ==
    LET image == apply_container_transform(frame, c)
    IN  /\ ~image.raised
        /\ image.width > 0 /\ image.height > 0
        /\ c.position[1] < display_width /\ c.position[2] < display_height
        /\ \/ c.position[1] + image.width > display_width
           \/ c.position[2] + image.height > display_height

\* C11 as stated: a composited image whose rectangle extends past the canvas
\* is clipped and the part inside the canvas is written, so the container is
\* drawn
C11_ClippedBlit ==
    pc = "draw" =>
        \A k \in 1 .. Len(outcomes) :
            RectanglePastCanvas(objects[k]) => outcomes[k].outcome = "drawn"

---------------------------------------------------------------------------
(* Further properties of the planners (SpecPlan).                          *)

\* the grid planner on a canvas of 1920 x 1080 with min_objects = max_objects = 4
FourOnFullHD ==
    /\ mode = "grid"
    /\ <<display_width, display_height>> = <<1920, 1080>>
    /\ <<min_objects, max_objects>> = <<4, 4>>

\* container c has fractions in (0, 1] and lies inside the canvas
WellFormed(c) ==
    /\ RLess(<<0, 1>>, c.width_scale) /\ RLeq(c.width_scale, <<1, 1>>)
    /\ RLess(<<0, 1>>, c.height_scale) /\ RLeq(c.height_scale, <<1, 1>>)
    /\ 0 <= c.position[1] /\ c.position[1] + TruncatedSize(c)[1] <= display_width
    /\ 0 <= c.position[2] /\ c.position[2] + TruncatedSize(c)[2] <= display_height

\* C12 as stated: on 1920 x 1080 with min_objects = max_objects = 4 the grid
\* planner returns exactly 4 containers whatever it draws
C12_ExactlyFour ==
    (FourOnFullHD /\ pc = "done") => Len(containers) = 4

\* C12: on 1920 x 1080 with min_objects = max_objects = 4 the grid planner
\* returns at most 4 containers, fewer than 4 only when its 12 attempts are
\* used up, and on that canvas every container has fractions in (0, 1] and
\* lies inside the canvas
C12_AtMostFour ==
    /\ (FourOnFullHD /\ pc = "done") =>
            /\ Len(containers) <= 4
            /\ Len(containers) < 4 => (attempts = 0 /\ iterations = 12)
    /\ (mode = "grid" /\ <<display_width, display_height>> = <<1920, 1080>>) =>
            \A k \in 1 .. Len(containers) : WellFormed(containers[k])

\* the call returned 3 containers after 12 attempts
C12_Witness ==
    /\ FourOnFullHD
    /\ pc = "done"
    /\ Len(containers) = 3
    /\ iterations = 12

\* C13 as stated: every container of the list has width_scale and
\* height_scale greater than 0 and at most 1
C13_UnitFractions ==
    \A k \in 1 .. Len(containers) :
        /\ RLess(<<0, 1>>, containers[k].width_scale)
        /\ RLeq(containers[k].width_scale, <<1, 1>>)
        /\ RLess(<<0, 1>>, containers[k].height_scale)
        /\ RLeq(containers[k].height_scale, <<1, 1>>)

---------------------------------------------------------------------------
(* Further properties of the compositors (SpecComp).                       *)

\* C14 as stated: the target width and the target height a compositor uses
\* are each at least 1 pixel, whatever the container and the canvas
C14_TargetAtLeastOne ==
    pc = "done" =>
        /\ target_width(container) >= 1
        /\ target_height(container) >= 1

---------------------------------------------------------------------------
(* The end of a grid planning call (SpecPlan).                             *)

\* the grid planner's loop runs an iteration only below the count and with
\* budget left
IteratesOnlyWhileNeeded ==
    (mode = "grid" /\ iterations' > iterations) => (placed < count /\ attempts > 0)

\* the grid planner returns only with the count reached or the budget used up
ReturnsOnlyWhenFinished ==
    (mode = "grid" /\ pc = "done") =>
        /\ placed = Len(containers)
        /\ \/ Len(containers) = count
           \/ Len(containers) < count /\ attempts = 0 /\ iterations = 3 * count

\* C15: the grid planner stops exactly when the count is reached or the
\* budget is used up: a list shorter than the count is returned only after
\* all 3 * count attempts, and no iteration runs once the count is reached
C15_StopsExactly ==
    /\ []ReturnsOnlyWhenFinished
    /\ [][IteratesOnlyWhileNeeded]_vars

\* a call of count 3 returned 2 containers after its 9 attempts
C15_Witness ==
    /\ mode = "grid"
    /\ pc = "done"
    /\ count = 3
    /\ Len(containers) = 2
    /\ attempts = 0
    /\ iterations = 9

---------------------------------------------------------------------------
(* Repeated calls of the grid planner (SpecReplan).                        *)

\* at the start of a call, before its first iteration, nothing of an earlier
\* call is left: the grid is all free and the list is empty
FreshStart ==
    (mode = "grid" /\ pc = "loop" /\ iterations = 0) =>
        /\ grid = {}
        /\ containers = <<>> /\ spans = <<>>
        /\ placed = 0
        /\ attempts = 3 * count
        /\ min_objects <= count /\ count <= max_objects

\* C16: every call of the grid planner, however many calls preceded it,
\* starts from an all-free grid and an empty list, so what it can return does
\* not depend on the earlier calls
C16_FreshGridPerCall ==
    /\ []FreshStart
    /\ [][calls' # calls => grid' = {}]_vars

\* a later call on a planner whose earlier call had filled the grid placed
\* its whole count again
C16_Witness ==
    /\ calls >= 1
    /\ pc = "done"
    /\ count >= 3
    /\ Len(containers) = count
    /\ grid # {}

---------------------------------------------------------------------------
(* The compositors on well-formed input (SpecComp).                        *)

\* the frame has a positive width and height and both targets are at least 1
ValidInput ==
    /\ ~frame.none /\ frame.width >= 1 /\ frame.height >= 1
    /\ target_width(container) >= 1 /\ target_height(container) >= 1

\* C17 as stated: apply_transform on a frame of positive width and height
\* with targets of at least 1 pixel does not take the fallback: the image has
\* the target size and the frame's pixels (a white 10 x 10 frame at
\* 0.5 x 0.5 on a canvas of 100 x 100 gives a white 50 x 50 image).
\* Violated: a white 49 x 49 frame for a target of 1 x 1 is resized to
\* 1 x int(49 * (1 / 49)) = 1 x 0, cv2.resize raises and the black frame is
\* returned.
C17_NoFallbackOnValidInput ==
    (mode = "transform" /\ pc = "done" /\ ValidInput) =>
        /\ ~result.raised
        /\ ~result.fallback
        /\ result.colour = frame.colour
        /\ <<result.width, result.height>> = TruncatedSize(container)
        /\ (/\ frame = Frame(10, 10, 255)
            /\ <<display_width, display_height>> = <<100, 100>>
            /\ container.width_scale = <<1, 2>>
            /\ container.height_scale = <<1, 2>>)
                => result = Returned(50, 50, 255, FALSE, 50, 50)

\* the pre-crop window of the legacy compositor lies inside the rotated frame
WindowInsideRotated(f, c) ==
    LET cut == CutoutShape(f, c)
        shape == Rotated(f, c.rotation)
    IN  /\ cut.crop_width <= shape[2]
        /\ cut.crop_height <= shape[1]
        /\ cut.start_x + cut.crop_width <= shape[2]
        /\ cut.start_y + cut.crop_height <= shape[1]

\* C18 as stated: for every rotation the pre-crop window does not exceed the
\* rotated frame and lies inside it, and the region cropped from a non-empty
\* frame is not empty
C18_CropInsideRotatedFrame ==
    (mode = "legacy_transform" /\ pc = "done"
        /\ ~frame.none /\ frame.width >= 1 /\ frame.height >= 1) =>
            /\ WindowInsideRotated(frame, container)
            /\ CutoutShape(frame, container).width >= 1
            /\ CutoutShape(frame, container).height >= 1


---------------------------------------------------------------------------
(* The aspect-fill resize of both compositors (SpecComp).                  *)

\* a resized size that is at least the target in both dimensions and equal
\* to it in one
CoversTarget(new, tw, th) ==
    /\ new[1] >= tw
    /\ new[2] >= th
    /\ (new[1] = tw \/ new[2] = th)

\* C19 as stated: for a region of positive width and height and targets of
\* at least 1, the size the region is resized to is at least the target in
\* both dimensions and equal to it in one, in apply_transform (the region is
\* the frame) and in apply_container_transform (the region is the cutout).
\* Violated: a 640 x 480 frame for a target of 164 x 123 is resized to
\* 164 x 122, because int(480 * (164 / 640)) = 122 in binary64.
C19_ResizeCoversTarget ==
    (/\ pc = "done"
     /\ ~frame.none /\ frame.width >= 1 /\ frame.height >= 1
     /\ target_width(container) >= 1 /\ target_height(container) >= 1) =>
        /\ mode = "transform" =>
                CoversTarget(AspectFillSize(frame, target_width(container),
                                            target_height(container)),
                             target_width(container), target_height(container))
        /\ (/\ mode = "legacy_transform"
            /\ CutoutShape(frame, container).width >= 1
            /\ CutoutShape(frame, container).height >= 1) =>
                CoversTarget(FillSize(CutoutShape(frame, container).height,
                                      CutoutShape(frame, container).width,
                                      target_width(container),
                                      target_height(container)),
                             target_width(container), target_height(container))

---------------------------------------------------------------------------
(* The positions of the grid planner (SpecPlan).                           *)

\* C20 as stated: every position of the grid planner's list lies on each
\* axis in [spacing, canvas_dim - pixel_size - spacing], pixel_size the
\* truncated pixel size of the container, and no coordinate is negative.
\* Violated: when the pixel size exceeds canvas_dim - 2 * spacing the upper
\* end is below spacing and max(spacing, ...) returns spacing, above the
\* upper end (the lower end and the sign do hold).
C20_ClampedPosition ==
    mode = "grid" =>
        \A k \in 1 .. Len(containers) :
            LET x == containers[k].position[1]
                y == containers[k].position[2]
                size == TruncatedSize(containers[k])
            IN  /\ spacing <= x
                /\ x <= display_width - size[1] - spacing
                /\ spacing <= y
                /\ y <= display_height - size[2] - spacing
                /\ x >= 0
                /\ y >= 0

---------------------------------------------------------------------------
(* Rotation and orientation in the grid planner (SpecPlan).                *)

\* the rotations one loop iteration may give to a container of type t
RotationsOf(t) ==
    UNION {rotation_choices(s.is_vertical) : s \in {d \in SpanDraws : d.container_type = t}}

\* the placed containers of the stripe types have a rotation of their
\* orientation: 0 or 90 for a vertical stripe, 0 or 270 for a horizontal one
StripesRestricted ==
    \A k \in 1 .. Len(containers) :
        /\ types[k] = "vertical_stripe" => containers[k].rotation \in {0, 90}
        /\ types[k] = "horizontal_stripe" => containers[k].rotation \in {0, 270}

\* C21 as stated: a stripe receives only the rotations of its orientation,
\* and a square can receive any of 0, 90, 180 and 270. Violated in the runs
\* that explore every random choice: a square is given 0, 90 or 270, never 180.
C21_SquaresRotateFreely ==
    (mode = "grid" /\ rng.pick = "all" /\ pc = "done") =>
        /\ StripesRestricted
        /\ RotationsOf("vertical_stripe") \subseteq {0, 90}
        /\ RotationsOf("horizontal_stripe") \subseteq {0, 270}
        /\ RotationsOf("square") = {0, 90, 180, 270}

\* C21 amended: a vertical stripe receives 0 or 90, a horizontal stripe 0 or
\* 270, and a square, whose orientation is drawn at random, receives 0, 90 or
\* 270: 180 is never given to a square
C21_SquaresRotateByOrientation ==
    (mode = "grid" /\ rng.pick = "all") =>
        /\ StripesRestricted
        /\ RotationsOf("vertical_stripe") = {0, 90}
        /\ RotationsOf("horizontal_stripe") = {0, 270}
        /\ RotationsOf("square") = {0, 90, 270}
        /\ \A k \in 1 .. Len(containers) :
               types[k] = "square" => containers[k].rotation \in {0, 90, 270}

\* a square that was given the rotation 270 has been placed
C21_Witness ==
    /\ mode = "grid" /\ rng.pick = "all"
    /\ \E k \in 1 .. Len(containers) :
           types[k] = "square" /\ containers[k].rotation = 270

\* C25: every container of the grid planner's list has a rotation of 0 or 90
\* when is_vertical is true and of 0 or 270 when it is false; is_vertical is
\* true for a vertical stripe and false for a horizontal stripe; 180 is never
\* assigned
C25_RotationFollowsIsVertical ==
    mode = "grid" =>
        /\ Len(types) = Len(containers)
        /\ \A k \in 1 .. Len(containers) :
               /\ containers[k].is_vertical => containers[k].rotation \in {0, 90}
               /\ ~containers[k].is_vertical => containers[k].rotation \in {0, 270}
               /\ types[k] = "vertical_stripe" => containers[k].is_vertical
               /\ types[k] = "horizontal_stripe" => ~containers[k].is_vertical
               /\ containers[k].rotation # 180

\* a returned list with a horizontal stripe turned by 270
C25_Witness ==
    /\ mode = "grid" /\ pc = "done"
    /\ \E k \in 1 .. Len(containers) :
           /\ types[k] = "horizontal_stripe"
           /\ ~containers[k].is_vertical
           /\ containers[k].rotation = 270

---------------------------------------------------------------------------
(* The search for a free span (SpecPlan).                                  *)

\* the cells of the 12 x 8 grid and the free ones among them
GridCells == (0 .. grid_rows - 1) \X (0 .. grid_cols - 1)
FreeCells == GridCells \ grid

\* the positions at which a span of w x h cells lies inside the grid over
\* free cells, looked for at every cell of the grid
FittingPositions(w, h) ==
    {p \in GridCells :
        /\ p[1] + h <= grid_rows
        /\ p[2] + w <= grid_cols
        /\ SpanCells(p[1], p[2], w, h) \cap grid = {}}

\* the span sizes one loop iteration may ask for
SpanSizes == {<<s.width_cells, s.height_cells>> : s \in SpanDraws}

\* _find_grid_space answers (-1, -1) exactly when no position fits, and a
\* fitting position otherwise
FindsWhenPossible(w, h) ==
    LET found == _find_grid_space(w, h)
        fitting == FittingPositions(w, h)
    IN  /\ (<<-1, -1>> \in found) <=> (fitting = {})
        /\ fitting # {} => (found # {} /\ found \subseteq fitting)

\* a step that places a container marks a span that was inside the grid and
\* free, and a step that misses had a size for which no position fits
AttemptOutcome ==
    /\ placed' = placed + 1 =>
            /\ spans'[Len(spans')] \subseteq FreeCells
            /\ grid' = grid \cup spans'[Len(spans')]
    /\ (attempts' = attempts - 1 /\ placed' = placed) =>
            \E size \in SpanSizes : FittingPositions(size[1], size[2]) = {}

\* C22: an attempt of the grid planner fails only when no position exists:
\* _find_grid_space returns (-1, -1) exactly when the span fits nowhere
\* inside the grid over free cells, and otherwise a position whose whole
\* span is inside the grid and free (looked at wherever the loop goes on to
\* another attempt, for every size the attempt may draw)
C22_FailsOnlyWhenNoPosition ==
    /\ [](mode = "grid" /\ pc = "loop" /\ GridContinues =>
            \A size \in SpanSizes : FindsWhenPossible(size[1], size[2]))
    /\ [][mode = "grid" => AttemptOutcome]_vars

\* during a call one size fits nowhere any more while another still fits
C22_Witness ==
    /\ mode = "grid" /\ pc = "loop" /\ GridContinues /\ grid # {}
    /\ \E size \in SpanSizes :
           /\ FittingPositions(size[1], size[2]) = {}
           /\ _find_grid_space(size[1], size[2]) = {<<-1, -1>>}
    /\ \E size \in SpanSizes :
           /\ FittingPositions(size[1], size[2]) # {}
           /\ <<-1, -1>> \notin _find_grid_space(size[1], size[2])

---------------------------------------------------------------------------
(* The weights of the container types (SpecPlan).                          *)

\* the weight of the type named t, in hundredths
WeightOf(t) ==
    LET k == CHOOSE j \in 1 .. Len(container_types) : container_types[j][1] = t
    IN  container_types[k][2]

RECURSIVE WeightSum(_)
WeightSum(n) == IF n = 0 THEN 0 ELSE container_types[n][2] + WeightSum(n - 1)

\* the weights add up to 1 and every type drawn so far is one of the list
WeightsSumToOne ==
    /\ WeightSum(Len(container_types)) = 100
    /\ \A k \in 1 .. Len(types) : types[k] \in WeightedChoice

\* C23 as stated: the weights are fixed, add up to 1, and each stripe type is
\* less likely to be chosen than the square. Violated: each stripe type has
\* the weight 0.35 and the square 0.3.
C23_StripesLessLikely ==
    (mode = "grid" /\ pc = "done") =>
        /\ WeightsSumToOne
        /\ WeightOf("vertical_stripe") < WeightOf("square")
        /\ WeightOf("horizontal_stripe") < WeightOf("square")

\* C23 amended: the weights are fixed at 0.35, 0.35 and 0.3, add up to 1, and
\* each stripe type is more likely to be chosen than the square
C23_StripesMoreLikely ==
    mode = "grid" =>
        /\ WeightsSumToOne
        /\ WeightOf("vertical_stripe") = 35
        /\ WeightOf("horizontal_stripe") = 35
        /\ WeightOf("square") = 30
        /\ WeightOf("vertical_stripe") > WeightOf("square")
        /\ WeightOf("horizontal_stripe") > WeightOf("square")

\* a returned list for which both a stripe type and the square were chosen
C23_Witness ==
    /\ mode = "grid" /\ pc = "done"
    /\ \E a, b \in 1 .. Len(types) :
           types[a] = "square" /\ types[b] \in {"vertical_stripe", "horizontal_stripe"}

---------------------------------------------------------------------------
(* The occupancy grid during a grid planning call (SpecPlan).              *)

\* the occupied cells are the cells of the spans placed so far in the call
GridIsUnionOfSpans ==
    /\ Len(spans) = Len(containers)
    /\ Len(containers) = placed
    /\ grid = UNION {spans[k] : k \in 1 .. Len(spans)}

\* one step inside a call: no cell is freed, a step that places nothing
\* leaves the grid and the list alone, and cells are marked only together
\* with one more container
GridStep ==
    /\ grid \subseteq grid'
    /\ placed' = placed => (grid' = grid /\ containers' = containers)
    /\ grid' # grid =>
            /\ placed' = placed + 1
            /\ Len(containers') = Len(containers) + 1
            /\ grid' = grid \cup spans'[Len(spans')]

\* C24: at every point of a grid planning call the occupied cells are exactly
\* the union of the spans of the containers placed so far in that call: cells
\* are marked only on a successful placement, a failed attempt changes neither
\* the grid nor the list, and no cell is freed during the call
C24_GridIsUnionOfSpans ==
    /\ [](mode = "grid" /\ pc \in {"loop", "done"} => GridIsUnionOfSpans)
    /\ [][mode = "grid" /\ pc = "loop" => GridStep]_vars

\* inside a call, after two placements and at least one failed attempt
C24_Witness ==
    /\ mode = "grid" /\ pc = "loop"
    /\ placed = 2 /\ iterations > placed
    /\ grid = spans[1] \cup spans[2]
=========================================================================
